---- MODULE Spec2Model ----
(***************************************************************************)
(* ChessCrypt (src/cc.py): an S-box generated by a knight, a king and a    *)
(* bishop walking over a cyclic box_size x box_size board; every move      *)
(* swaps the table cell under the piece with the cell it moves to.         *)
(*                                                                         *)
(* Positions are pairs <<x, y>> indexed from 1 in TLA+ (pos[1] is the      *)
(* code's pos[0]); board coordinates and table values are 0-based as in    *)
(* the code.  The table sbox is a function row -> (column -> value).       *)
(***************************************************************************)
EXTENDS Integers, Sequences, FiniteSets, TLC

\* Largest board side explored (the code's default is 16).
MaxSide == 3

\* Largest number of piece moves explored on one engine (three per loop
\* iteration), and the same for the engines on which lookups are explored.
MaxSteps == 6
MaxSubSteps == 3

\* Largest number of piece moves explored when the random draws are recorded.
MaxDetSteps == 4

\* Board sides handed to the constructor: negative, zero, degenerate, proper.
BoxSizes == (0 - 1)..MaxSide

VARIABLES
    box_size,     \* self.box_size
    sbox,         \* self.sbox
    king_pos,     \* self.king_pos
    knight_pos,   \* self.knight_pos
    bishop_pos,   \* self.bishop_pos
    pc,           \* "noobject" | "idle" | "knight" | "king" | "bishop"
    iters_left,   \* iterations of the loop of generate_sbox still to run
    steps,        \* piece moves made so far (bounds the model)
    ret,          \* outcome of the last call: what it returned or raised
    draws,        \* the values np.random.randint returned, when recorded
    single        \* when followed: the engine of one uninterrupted
                  \* generate_sbox call fed the same draws

vars == <<box_size, sbox, king_pos, knight_pos, bishop_pos, pc, iters_left,
          steps, ret, draws, single>>

engine == <<box_size, sbox, king_pos, knight_pos, bishop_pos>>

----------------------------------------------------------------------------
(* Move generators *)

\* (x % self.box_size, y % self.box_size): Python's % with a positive
\* divisor is the mathematical modulo, as is TLA+'s.
wrap(x, y, n) == <<x % n, y % n>>

get_knight_moves(pos, n) ==
    << wrap(pos[1] + 2, pos[2] + 1, n), wrap(pos[1] + 2, pos[2] - 1, n),
       wrap(pos[1] - 2, pos[2] + 1, n), wrap(pos[1] - 2, pos[2] - 1, n),
       wrap(pos[1] + 1, pos[2] + 2, n), wrap(pos[1] + 1, pos[2] - 2, n),
       wrap(pos[1] - 1, pos[2] + 2, n), wrap(pos[1] - 1, pos[2] - 2, n) >>

\* The king's list with the dx = dy = 0 test forgotten: nine entries, the
\* fifth of them the king's own square.
get_king_moves_unfiltered(pos, n) ==
    << wrap(pos[1] - 1, pos[2] - 1, n), wrap(pos[1] - 1, pos[2], n),
       wrap(pos[1] - 1, pos[2] + 1, n), wrap(pos[1], pos[2] - 1, n),
       wrap(pos[1], pos[2], n), wrap(pos[1], pos[2] + 1, n),
       wrap(pos[1] + 1, pos[2] - 1, n), wrap(pos[1] + 1, pos[2], n),
       wrap(pos[1] + 1, pos[2] + 1, n) >>

\* for dx in [-1, 0, 1]: for dy in [-1, 0, 1]: skip (0, 0), append.
KingOffsets ==
    << <<0 - 1, 0 - 1>>, <<0 - 1, 0>>, <<0 - 1, 1>>,
       <<0, 0 - 1>>, <<0, 0>>, <<0, 1>>,
       <<1, 0 - 1>>, <<1, 0>>, <<1, 1>> >>

RECURSIVE king_loop(_, _, _, _)
king_loop(pos, n, i, moves) ==
    IF i > Len(KingOffsets) THEN moves
    ELSE LET dx == KingOffsets[i][1]
             dy == KingOffsets[i][2]
         IN  IF dx = 0 /\ dy = 0
             THEN king_loop(pos, n, i + 1, moves)
             ELSE king_loop(pos, n, i + 1,
                            Append(moves, wrap(pos[1] + dx, pos[2] + dy, n)))

get_king_moves(pos, n) == king_loop(pos, n, 1, <<>>)

BishopDirections == << <<1, 1>>, <<1, 0 - 1>>, <<0 - 1, 1>>, <<0 - 1, 0 - 1>> >>

\* The walk stopped at the edges instead of carried round them.
RECURSIVE bishop_walk_clamped(_, _, _, _, _)
bishop_walk_clamped(curr, direction, n, k, moves) ==
    IF k = 0 THEN moves
    ELSE LET clamp(v) == IF v < 0 THEN 0 ELSE IF v > n - 1 THEN n - 1 ELSE v
             next == <<clamp(curr[1] + direction[1]),
                       clamp(curr[2] + direction[2])>>
         IN  bishop_walk_clamped(next, direction, n, k - 1,
                                 Append(moves, next))

\* The inner loop: k more steps from curr, each from the previous wrapped
\* point.
RECURSIVE bishop_walk(_, _, _, _, _)
bishop_walk(curr, direction, n, k, moves) ==
    IF k = 0 THEN moves
    ELSE LET next == wrap(curr[1] + direction[1], curr[2] + direction[2], n)
         IN  bishop_walk(next, direction, n, k - 1, Append(moves, next))

RECURSIVE bishop_loop(_, _, _, _)
bishop_loop(pos, n, i, moves) ==
    IF i > Len(BishopDirections) THEN moves
    ELSE bishop_loop(pos, n, i + 1,
                     bishop_walk(pos, BishopDirections[i], n, n, moves))

\* The bishop's list with the inner loop run once too often
\* (range(box_size + 1)).
RECURSIVE bishop_loop_long(_, _, _, _)
bishop_loop_long(pos, n, i, moves) ==
    IF i > Len(BishopDirections) THEN moves
    ELSE bishop_loop_long(pos, n, i + 1,
                          bishop_walk(pos, BishopDirections[i], n, n + 1, moves))

get_bishop_moves_long(pos, n) == bishop_loop_long(pos, n, 1, <<>>)

get_bishop_moves(pos, n) == bishop_loop(pos, n, 1, <<>>)

----------------------------------------------------------------------------
(* The table *)

\* np.arange(box_size * box_size).reshape(box_size, box_size)
identity_table(n) == [r \in 0..(n - 1) |-> [c \in 0..(n - 1) |-> r * n + c]]

\* A swap written as two plain assignments, without the tuple: the second
\* reads the cell the first has already overwritten.
swap_positions_overwrite(t, pos1, pos2) ==
    LET t1 == [t EXCEPT ![pos1[1]][pos1[2]] = t[pos2[1]][pos2[2]]]
    IN  [t1 EXCEPT ![pos2[1]][pos2[2]] = t1[pos1[1]][pos1[2]]]

\* A swap without a temporary, by sums and differences: right for two
\* cells, but a cell swapped with itself is left holding 0.
swap_positions_arith(t, pos1, pos2) ==
    LET t1 == [t EXCEPT ![pos1[1]][pos1[2]] =
                            t[pos1[1]][pos1[2]] + t[pos2[1]][pos2[2]]]
        t2 == [t1 EXCEPT ![pos2[1]][pos2[2]] =
                             t1[pos1[1]][pos1[2]] - t1[pos2[1]][pos2[2]]]
    IN  [t2 EXCEPT ![pos1[1]][pos1[2]] =
                       t2[pos1[1]][pos1[2]] - t2[pos2[1]][pos2[2]]]

\* The right-hand side is read first; then the two cells are written in
\* order, the second write on top of the first.
swap_positions(t, pos1, pos2) ==
    LET v1 == t[pos1[1]][pos1[2]]
        v2 == t[pos2[1]][pos2[2]]
        t1 == [t EXCEPT ![pos1[1]][pos1[2]] = v2]
    IN  [t1 EXCEPT ![pos2[1]][pos2[2]] = v1]

\* The positions of the table, and self.sbox.flatten() as the set of its
\* values (np.unique and np.min / np.max need no more).
Cells(n) == (0..(n - 1)) \X (0..(n - 1))
FlatValues(t, n) == {t[p[1]][p[2]] : p \in Cells(n)}

----------------------------------------------------------------------------
(* Construction *)

\* The constructor with the knight's centre rounded up.
InitFor_centre_up(n) ==
    IF n < 0
    THEN /\ box_size = n
         /\ sbox = << >>
         /\ king_pos = <<0, 0>>
         /\ knight_pos = <<0, 0>>
         /\ bishop_pos = <<0, 0>>
         /\ pc = "noobject"
         /\ ret = [call |-> "init", arg |-> n, outcome |-> "ValueError"]
    ELSE /\ box_size = n
         /\ sbox = identity_table(n)
         /\ king_pos = <<0, 0>>
         /\ knight_pos = <<(n + 1) \div 2, (n + 1) \div 2>>
         /\ bishop_pos = <<n - 1, n - 1>>
         /\ pc = "idle"
         /\ ret = [call |-> "init", arg |-> n, outcome |-> "returned"]

\* __init__: reshape refuses two negative dimensions with a ValueError, so
\* no object comes to exist for box_size < 0; every other size is accepted.
InitFor(n) ==
    IF n < 0
    THEN /\ box_size = n
         /\ sbox = << >>
         /\ king_pos = <<0, 0>>
         /\ knight_pos = <<0, 0>>
         /\ bishop_pos = <<0, 0>>
         /\ pc = "noobject"
         /\ ret = [call |-> "init", arg |-> n, outcome |-> "ValueError"]
    ELSE /\ box_size = n
         /\ sbox = identity_table(n)
         /\ king_pos = <<0, 0>>
         /\ knight_pos = <<n \div 2, n \div 2>>
         /\ bishop_pos = <<n - 1, n - 1>>
         /\ pc = "idle"
         /\ ret = [call |-> "init", arg |-> n, outcome |-> "returned"]

Init ==
    /\ \E n \in BoxSizes : InitFor(n)
    /\ iters_left = 0
    /\ steps = 0
    /\ draws = << >>
    /\ single = [sbox |-> sbox, king_pos |-> king_pos,
                 knight_pos |-> knight_pos, bishop_pos |-> bishop_pos]

----------------------------------------------------------------------------
(* generate_sbox *)

\* A call that puts the pieces back on their first squares before it
\* starts to move them.
generate_sbox_restart(iterations) ==
    /\ pc = "idle"
    /\ IF iterations > 0
       THEN /\ pc' = "knight"
            /\ iters_left' = iterations
            /\ ret' = [call |-> "generate_sbox", arg |-> iterations,
                       outcome |-> "running"]
       ELSE /\ pc' = "idle"
            /\ iters_left' = 0
            /\ ret' = [call |-> "generate_sbox", arg |-> iterations,
                       outcome |-> "returned"]
    /\ king_pos' = <<0, 0>>
    /\ knight_pos' = <<box_size \div 2, box_size \div 2>>
    /\ bishop_pos' = <<box_size - 1, box_size - 1>>
    /\ UNCHANGED <<box_size, sbox, steps>>

\* The loop written with its test at the end: the body runs once even
\* when no iteration is asked for.
generate_sbox_test_last(iterations) ==
    /\ pc = "idle"
    /\ IF iterations >= 0
       THEN /\ pc' = "knight"
            /\ iters_left' = iterations
            /\ ret' = [call |-> "generate_sbox", arg |-> iterations,
                       outcome |-> "running"]
       ELSE /\ pc' = "idle"
            /\ iters_left' = 0
            /\ ret' = [call |-> "generate_sbox", arg |-> iterations,
                       outcome |-> "returned"]
    /\ UNCHANGED <<box_size, sbox, king_pos, knight_pos, bishop_pos, steps>>

\* The call itself: range(iterations) is empty for iterations <= 0, and the
\* table is returned at once; otherwise the loop is entered.
generate_sbox(iterations) ==
    /\ pc = "idle"
    /\ IF iterations > 0
       THEN /\ pc' = "knight"
            /\ iters_left' = iterations
            /\ ret' = [call |-> "generate_sbox", arg |-> iterations,
                       outcome |-> "running"]
       ELSE /\ pc' = "idle"
            /\ iters_left' = 0
            /\ ret' = [call |-> "generate_sbox", arg |-> iterations,
                       outcome |-> "returned"]
    /\ UNCHANGED <<engine, steps>>

\* np.random.randint(len(moves)): any index of the list.
Draws(moves) == 0..(Len(moves) - 1)

\* A choice that also depends on how far the walk has come, which the
\* draws alone do not tell.
chosen_by_progress(moves, index) == moves[((index + steps) % Len(moves)) + 1]

\* moves[index], the list being 0-based in the code
chosen(moves, index) == moves[index + 1]

\* With box_size = 0 the knight's generator divides by zero (x % 0) and the
\* call ends with that exception, nothing moved.
KnightRaises ==
    /\ pc = "knight"
    /\ box_size = 0
    /\ pc' = "idle"
    /\ iters_left' = 0
    /\ ret' = [ret EXCEPT !.outcome = "ZeroDivisionError"]
    /\ UNCHANGED <<engine, steps>>

\* The knight's move followed at once by the bishop's, the king left out.
KnightStep_then_bishop(d) ==
    /\ pc = "knight"
    /\ box_size # 0
    /\ LET knight_moves == get_knight_moves(knight_pos, box_size)
       IN  /\ d \in Draws(knight_moves)
           /\ LET new_knight_pos == chosen(knight_moves, d)
              IN  /\ sbox' = swap_positions(sbox, knight_pos, new_knight_pos)
                  /\ knight_pos' = new_knight_pos
    /\ pc' = "bishop"
    /\ steps' = steps + 1
    /\ UNCHANGED <<box_size, king_pos, bishop_pos, iters_left, ret>>

KnightStep(d) ==
    /\ pc = "knight"
    /\ box_size # 0
    /\ LET knight_moves == get_knight_moves(knight_pos, box_size)
       IN  /\ d \in Draws(knight_moves)
           /\ LET new_knight_pos == chosen(knight_moves, d)
              IN  /\ sbox' = swap_positions(sbox, knight_pos, new_knight_pos)
                  /\ knight_pos' = new_knight_pos
    /\ pc' = "king"
    /\ steps' = steps + 1
    /\ UNCHANGED <<box_size, king_pos, bishop_pos, iters_left, ret>>

\* The king's destination picked with the help of the value it stands on.
KingStep_by_value(d) ==
    /\ pc = "king"
    /\ LET king_moves == get_king_moves(king_pos, box_size)
       IN  /\ d \in Draws(king_moves)
           /\ LET new_king_pos ==
                      chosen(king_moves,
                             (d + sbox[king_pos[1]][king_pos[2]]) % Len(king_moves))
              IN  /\ sbox' = swap_positions(sbox, king_pos, new_king_pos)
                  /\ king_pos' = new_king_pos
    /\ pc' = "bishop"
    /\ steps' = steps + 1
    /\ UNCHANGED <<box_size, knight_pos, bishop_pos, iters_left, ret>>

KingStep(d) ==
    /\ pc = "king"
    /\ LET king_moves == get_king_moves(king_pos, box_size)
       IN  /\ d \in Draws(king_moves)
           /\ LET new_king_pos == chosen(king_moves, d)
              IN  /\ sbox' = swap_positions(sbox, king_pos, new_king_pos)
                  /\ king_pos' = new_king_pos
    /\ pc' = "bishop"
    /\ steps' = steps + 1
    /\ UNCHANGED <<box_size, knight_pos, bishop_pos, iters_left, ret>>

\* The bishop's move ends the iteration; after the last one the table is
\* returned.
BishopStep(d) ==
    /\ pc = "bishop"
    /\ LET bishop_moves == get_bishop_moves(bishop_pos, box_size)
       IN  /\ d \in Draws(bishop_moves)
           /\ LET new_bishop_pos == chosen(bishop_moves, d)
              IN  /\ sbox' = swap_positions(sbox, bishop_pos, new_bishop_pos)
                  /\ bishop_pos' = new_bishop_pos
    /\ iters_left' = iters_left - 1
    /\ IF iters_left > 1
       THEN /\ pc' = "knight"
            /\ ret' = ret
       ELSE /\ pc' = "idle"
            /\ ret' = [ret EXCEPT !.outcome = "returned"]
    /\ steps' = steps + 1
    /\ UNCHANGED <<box_size, knight_pos, king_pos>>

----------------------------------------------------------------------------
(* substitute and get_sbox_stats *)

\* The lookup with row and column exchanged.
substitute_result_transposed(t, n, input_byte) ==
    IF n = 0
    THEN [call |-> "substitute", arg |-> input_byte,
          outcome |-> "ZeroDivisionError", val |-> 0]
    ELSE LET row == input_byte % n
             col == input_byte \div n
         IN  IF col >= n \/ col < 0 - n
             THEN [call |-> "substitute", arg |-> input_byte,
                   outcome |-> "IndexError", val |-> 0]
             ELSE [call |-> "substitute", arg |-> input_byte,
                   outcome |-> "returned",
                   val |-> t[row][IF col < 0 THEN col + n ELSE col]]

\* The lookup with the column used for the row as well.
substitute_result_diagonal(t, n, input_byte) ==
    IF n = 0
    THEN [call |-> "substitute", arg |-> input_byte,
          outcome |-> "ZeroDivisionError", val |-> 0]
    ELSE LET row == input_byte % n
             col == input_byte % n
         IN  [call |-> "substitute", arg |-> input_byte,
              outcome |-> "returned", val |-> t[row][col]]

\* self.sbox[row][col] with numpy's indexing: an index in [-n, 0) counts
\* from the end, an index outside [-n, n) raises IndexError.
substitute_result(t, n, input_byte) ==
    IF n = 0
    THEN [call |-> "substitute", arg |-> input_byte,
          outcome |-> "ZeroDivisionError", val |-> 0]
    ELSE LET row == input_byte \div n
             col == input_byte % n
         IN  IF row >= n \/ row < 0 - n
             THEN [call |-> "substitute", arg |-> input_byte,
                   outcome |-> "IndexError", val |-> 0]
             ELSE [call |-> "substitute", arg |-> input_byte,
                   outcome |-> "returned",
                   val |-> t[IF row < 0 THEN row + n ELSE row][col]]

\* Every input that can behave differently: the domain, the negative
\* indices numpy accepts, and the first values beyond either end.
SubInputs(n) == (0 - (n * n) - 1)..(n * n + 1)

substitute(input_byte) ==
    /\ pc = "idle"
    /\ ret' = substitute_result(sbox, box_size, input_byte)
    /\ UNCHANGED <<engine, pc, iters_left, steps, draws, single>>

SetMin(S) == CHOOSE x \in S : \A y \in S : x <= y
SetMax(S) == CHOOSE x \in S : \A y \in S : x >= y

\* mean_value and std_dev are floating-point summaries and are left out.
\* np.min of an empty array raises ValueError.
sbox_stats(t, n) ==
    LET values == FlatValues(t, n)
    IN  IF n = 0
        THEN [call |-> "get_sbox_stats", outcome |-> "ValueError",
              is_bijective |-> TRUE, min_value |-> 0, max_value |-> 0]
        ELSE [call |-> "get_sbox_stats", outcome |-> "returned",
              is_bijective |-> (Cardinality(values) = Cardinality(Cells(n))),
              min_value |-> SetMin(values), max_value |-> SetMax(values)]

get_sbox_stats ==
    /\ pc = "idle"
    /\ ret' = sbox_stats(sbox, box_size)
    /\ UNCHANGED <<engine, pc, iters_left, steps, draws, single>>

----------------------------------------------------------------------------
(* The loop of generate_sbox as a function of the draws *)

EngineAt(n) ==
    [sbox |-> identity_table(n), king_pos |-> <<0, 0>>,
     knight_pos |-> <<n \div 2, n \div 2>>, bishop_pos |-> <<n - 1, n - 1>>]

\* One piece's move on the engine e with the draw d: k = 0 the knight,
\* k = 1 the king, k = 2 the bishop.
advance(e, n, d, k) ==
    IF k = 0
    THEN LET to == chosen(get_knight_moves(e.knight_pos, n), d)
         IN  [e EXCEPT !.sbox = swap_positions(e.sbox, e.knight_pos, to),
                       !.knight_pos = to]
    ELSE IF k = 1
    THEN LET to == chosen(get_king_moves(e.king_pos, n), d)
         IN  [e EXCEPT !.sbox = swap_positions(e.sbox, e.king_pos, to),
                       !.king_pos = to]
    ELSE LET to == chosen(get_bishop_moves(e.bishop_pos, n), d)
         IN  [e EXCEPT !.sbox = swap_positions(e.sbox, e.bishop_pos, to),
                       !.bishop_pos = to]

\* The i-th draw (from 0) moves the knight, the king or the bishop, in that
\* order within each iteration.
RECURSIVE replay(_, _, _, _)
replay(e, n, ds, i) ==
    IF i >= Len(ds) THEN e
    ELSE replay(advance(e, n, ds[i + 1], i % 3), n, ds, i + 1)

Replay(n, ds) == replay(EngineAt(n), n, ds, 0)

----------------------------------------------------------------------------
(* Specifications *)

\* The iteration counts offered to generate_sbox: a negative one, zero, and
\* as many as can still start within the moves explored.
IterationCounts(bound) == (0 - 1)..((bound - steps + 2) \div 3)

\* The values randint can return for any of the three move lists.
DrawRange == 0..(IF 4 * box_size > 8 THEN 4 * box_size - 1 ELSE 7)

\* What is kept of a draw d: with record = "draws" the draw itself, with
\* record = "single" its effect on the engine of one uninterrupted call,
\* whose piece to move is told by the number of moves made.
Log(record, d) ==
    /\ draws' = IF record = "draws" THEN Append(draws, d) ELSE draws
    /\ single' = IF record = "single"
                 THEN advance(single, box_size, d, steps % 3)
                 ELSE single

\* The generate_sbox call and its loop.
Generation(bound, record) ==
    \/ /\ \E iterations \in IterationCounts(bound) : generate_sbox(iterations)
       /\ UNCHANGED <<draws, single>>
    \/ /\ KnightRaises
       /\ UNCHANGED <<draws, single>>
    \/ steps < bound /\ \E d \in DrawRange : KnightStep(d) /\ Log(record, d)
    \/ steps < bound /\ \E d \in DrawRange : KingStep(d) /\ Log(record, d)
    \/ steps < bound /\ \E d \in DrawRange : BishopStep(d) /\ Log(record, d)

\* The engine and its diagnostics.
Next ==
    \/ Generation(MaxSteps, "none")
    \/ get_sbox_stats

Spec == Init /\ [][Next]_vars

\* The engine together with its lookups.
NextSub ==
    \/ Generation(MaxSubSteps, "none")
    \/ \E input_byte \in SubInputs(box_size) : substitute(input_byte)

SpecSub == Init /\ [][NextSub]_vars

\* The engine with its random draws recorded.
NextDet == Generation(MaxDetSteps, "draws")

SpecDet == Init /\ [][NextDet]_vars

\* The engine called again and again, beside one uninterrupted call.
NextCont == Generation(MaxSteps, "single")

SpecCont == Init /\ [][NextCont]_vars

----------------------------------------------------------------------------
(* Properties *)

HasEngine == pc # "noobject"
Values == 0..(box_size * box_size - 1)
CellsHolding(v) == {p \in Cells(box_size) : sbox[p[1]][p[2]] = v}

\* C1: in every state reached from construction by generate_sbox, the
\* states between the knight's, the king's and the bishop's swaps included,
\* the table holds each value of 0 .. box_size^2 - 1 exactly once.
C1_TableIsPermutation ==
    HasEngine =>
        /\ \A p \in Cells(box_size) : sbox[p[1]][p[2]] \in Values
        /\ \A v \in Values : Cardinality(CellsHolding(v)) = 1

\* The second iteration's knight has swapped and its king has not yet.
C1_Witness ==
    /\ pc = "king"
    /\ steps = 4
    /\ box_size = 3
    /\ sbox # identity_table(3)

\* C2: generate_sbox(0) called on a freshly constructed engine returns at
\* once and leaves cell (row, col) holding row * box_size + col.
C2_ZeroIterationsKeepIdentity ==
    [][(ret.call = "init" /\ ret'.call = "generate_sbox" /\ ret'.arg = 0) =>
           /\ ret'.outcome = "returned"
           /\ \A p \in Cells(box_size) :
                  sbox'[p[1]][p[2]] = p[1] * box_size + p[2]]_vars

C2_Witness ==
    /\ ret = [call |-> "generate_sbox", arg |-> 0, outcome |-> "returned"]
    /\ steps = 0
    /\ box_size = 3
    /\ sbox[1][2] = 5

InDomain(v) == v \in Values

\* C3: for input_byte in [0, box_size^2), substitute returns the table
\* value at row input_byte // box_size, column input_byte % box_size,
\* whatever the table has become.
C3_SubstituteReadsCell ==
    (ret.call = "substitute" /\ InDomain(ret.arg)) =>
        /\ ret.outcome = "returned"
        /\ ret.val = sbox[ret.arg \div box_size][ret.arg % box_size]

\* A lookup in a table that the walk has changed at the cell looked up.
C3_Witness ==
    /\ ret.call = "substitute"
    /\ box_size = 3
    /\ steps = 3
    /\ ret.arg = 5
    /\ ret.outcome = "returned"
    /\ ret.val # 5

\* C4: substitute fails with an out-of-range error (IndexError) for every
\* input_byte outside [0, box_size^2), negative ones included, and never
\* returns a table value for it.  Stated for proper boards (side >= 3).
C4_OutOfRangeRejected ==
    (ret.call = "substitute" /\ box_size >= 3 /\ ~InDomain(ret.arg)) =>
        ret.outcome = "IndexError"

\* C5: after generate_sbox, whatever the iteration count and the draws,
\* substitute on each of 0 .. box_size^2 - 1 returns a value, no two inputs
\* get the same one, and together they are 0 .. box_size^2 - 1.
C5_SubstituteIsBijection ==
    pc = "idle" =>
        LET out(v) == substitute_result(sbox, box_size, v)
        IN  /\ \A v \in Values : out(v).outcome = "returned"
            /\ \A v, w \in Values : out(v).val = out(w).val => v = w
            /\ {out(v).val : v \in Values} = Values

\* One iteration done, and the lookups no longer the identity.
C5_Witness ==
    /\ pc = "idle"
    /\ box_size = 3
    /\ steps = 3
    /\ ret = [call |-> "generate_sbox", arg |-> 1, outcome |-> "returned"]
    /\ substitute_result(sbox, box_size, 0).val # 0
    /\ substitute_result(sbox, box_size, 8).val # 8

\* C6: in every state reached by construction and generate_sbox alone,
\* get_sbox_stats reports is_bijective = true, min_value = 0 and
\* max_value = box_size^2 - 1.
C6_StatsReportBijection ==
    ret.call = "get_sbox_stats" =>
        /\ ret.outcome = "returned"
        /\ ret.is_bijective
        /\ ret.min_value = 0
        /\ ret.max_value = box_size * box_size - 1

\* C7: the draws determine the run: the table and the three cursors are
\* those that the recorded draws give from a fresh engine of the same side,
\* so two engines fed the same draws agree.
C7_DrawsDetermineRun ==
    HasEngine =>
        LET e == Replay(box_size, draws)
        IN  /\ sbox = e.sbox
            /\ knight_pos = e.knight_pos
            /\ king_pos = e.king_pos
            /\ bishop_pos = e.bishop_pos

\* Into the second iteration, with a table the draws have changed.
C7_Witness ==
    /\ box_size = 3
    /\ Len(draws) = 4
    /\ pc = "king"
    /\ sbox # identity_table(3)
    /\ bishop_pos # <<2, 2>>

\* C8: generate_sbox with a negative iteration count is rejected with an
\* error at the call and does not return normally.  Stated for proper
\* boards (side >= 3).
C8_NegativeIterationsRejected ==
    (ret.call = "generate_sbox" /\ ret.arg < 0 /\ box_size >= 3) =>
        ret.outcome # "returned"

\* C9: construction with box_size < 3 is rejected, so no engine with such a
\* board ever generates: none exists that has moved a piece.
C9_SmallBoardRejected ==
    box_size < 3 => ~(HasEngine /\ steps > 0)

\* C10: for every board side and every position on the board, the knight's
\* list has 8 entries, the king's has 8 and the bishop's 4 * box_size.
C10_MoveListLengths ==
    HasEngine =>
        \A pos \in Cells(box_size) :
            /\ Len(get_knight_moves(pos, box_size)) = 8
            /\ Len(get_king_moves(pos, box_size)) = 8
            /\ Len(get_bishop_moves(pos, box_size)) = 4 * box_size

\* The three lists have been used on a side-3 board, where they hold
\* repeated entries, and the pieces have left their first squares.
C10_Witness ==
    /\ box_size = 3
    /\ steps = 3
    /\ knight_pos # <<1, 1>>
    /\ king_pos # <<0, 0>>
    /\ bishop_pos # <<2, 2>>
    /\ Cardinality({get_bishop_moves(bishop_pos, 3)[i] : i \in 1..12}) < 12

----------------------------------------------------------------------------
(* Properties of the pieces' moves *)

\* A piece moves in this step.
Moves == steps' = steps + 1

\* The cursor of the piece about to move.
Cursor ==
    IF pc = "knight" THEN knight_pos
    ELSE IF pc = "king" THEN king_pos ELSE bishop_pos

\* Table t2 is table t with the values of cells p1 and p2 exchanged and
\* every other cell as it was.
Exchanged(t, t2, p1, p2) ==
    /\ t2[p1[1]][p1[2]] = t[p2[1]][p2[2]]
    /\ t2[p2[1]][p2[2]] = t[p1[1]][p1[2]]
    /\ \A p \in Cells(box_size) :
           (p # p1 /\ p # p2) => t2[p[1]][p[2]] = t[p[1]][p[2]]

\* C11: _swap_positions(pos1, pos2) exchanges the values of the two cells
\* and leaves every other cell alone; with pos1 = pos2 the whole table is
\* left as it was.  Stated of every swap the walk makes, between the
\* moving piece's cursor before and after.
C11_SwapExchangesTwoCells ==
    [][Moves =>
           LET pos1 == Cursor
               pos2 == IF pc = "knight" THEN knight_pos'
                       ELSE IF pc = "king" THEN king_pos' ELSE bishop_pos'
           IN  /\ Exchanged(sbox, sbox', pos1, pos2)
               /\ pos1 = pos2 => sbox' = sbox]_vars

\* The knight and the king have swapped and the bishop was then drawn to
\* its own square, a swap of a non-zero cell with itself.
C11_Witness ==
    /\ box_size = 3
    /\ Len(draws) = 3
    /\ bishop_pos = <<2, 2>>
    /\ sbox[2][2] # 0
    /\ sbox # identity_table(3)

Engine ==
    [sbox |-> sbox, king_pos |-> king_pos, knight_pos |-> knight_pos,
     bishop_pos |-> bishop_pos]

\* C12: a further call of generate_sbox resets nothing: once the calls
\* generate_sbox(a), generate_sbox(b) have returned, table and cursors are
\* those of one call generate_sbox(a + b) fed the same draws.
C12_CallsContinue ==
    (/\ ret.call = "generate_sbox"
     /\ ret.outcome = "returned"
     /\ ret.arg > 0
     /\ steps > 3 * ret.arg) => Engine = single

\* generate_sbox(1) twice, beside one generate_sbox(2).
C12_Witness ==
    /\ box_size = 3
    /\ steps = 6
    /\ ret = [call |-> "generate_sbox", arg |-> 1, outcome |-> "returned"]
    /\ single.sbox # identity_table(3)
    /\ single.king_pos # <<0, 0>>

\* C13: in every iteration the knight moves, then the king, then the
\* bishop, each once; the moving piece goes to the entry of its list that
\* was drawn, the cells at its old and new squares are exchanged in the
\* table as the piece before left it, and no other cursor moves.
C13_KnightKingBishopInTurn ==
    [][Moves =>
           LET d == draws'[Len(draws')]
           IN  /\ steps % 3 = 0 =>
                     /\ pc = "knight" /\ pc' = "king"
                     /\ knight_pos' = get_knight_moves(knight_pos, box_size)[d + 1]
                     /\ Exchanged(sbox, sbox', knight_pos, knight_pos')
                     /\ UNCHANGED <<king_pos, bishop_pos>>
               /\ steps % 3 = 1 =>
                     /\ pc = "king" /\ pc' = "bishop"
                     /\ king_pos' = get_king_moves(king_pos, box_size)[d + 1]
                     /\ Exchanged(sbox, sbox', king_pos, king_pos')
                     /\ UNCHANGED <<knight_pos, bishop_pos>>
               /\ steps % 3 = 2 =>
                     /\ pc = "bishop" /\ pc' \in {"knight", "idle"}
                     /\ bishop_pos' = get_bishop_moves(bishop_pos, box_size)[d + 1]
                     /\ Exchanged(sbox, sbox', bishop_pos, bishop_pos')
                     /\ UNCHANGED <<knight_pos, king_pos>>]_vars

\* One whole iteration in which all three pieces went somewhere else.
C13_Witness ==
    /\ box_size = 3
    /\ Len(draws) = 3
    /\ pc = "idle"
    /\ knight_pos # <<1, 1>>
    /\ king_pos # <<0, 0>>
    /\ bishop_pos # <<2, 2>>

\* C14: right after construction the king is at (0, 0), the knight at
\* (box_size // 2, box_size // 2) and the bishop at
\* (box_size - 1, box_size - 1).
C14_FirstSquares ==
    (HasEngine /\ ret.call = "init") =>
        /\ king_pos = <<0, 0>>
        /\ knight_pos = <<box_size \div 2, box_size \div 2>>
        /\ bishop_pos = <<box_size - 1, box_size - 1>>
        /\ 2 * knight_pos[1] \in {box_size - 1, box_size}

\* A fresh engine of odd side, where the division rounds.
C14_Witness ==
    /\ ret = [call |-> "init", arg |-> 3, outcome |-> "returned"]
    /\ knight_pos = <<1, 1>>
    /\ bishop_pos = <<2, 2>>
    /\ king_pos = <<0, 0>>

OnBoard(pos) == pos \in Cells(box_size)
AllOnBoard(moves) == \A i \in 1..Len(moves) : OnBoard(moves[i])

\* C15: in every reachable state the three cursors and every coordinate of
\* every move the three generators produce lie in [0, box_size).
C15_EverythingOnBoard ==
    HasEngine =>
        /\ OnBoard(king_pos) /\ OnBoard(knight_pos) /\ OnBoard(bishop_pos)
        /\ \A pos \in Cells(box_size) :
               /\ AllOnBoard(get_knight_moves(pos, box_size))
               /\ AllOnBoard(get_king_moves(pos, box_size))
               /\ AllOnBoard(get_bishop_moves(pos, box_size))

\* A bishop generator that computes the k-th step of each diagonal from the
\* starting square: (pos + k * direction), then wrapped.
from_start(pos, n) ==
    [j \in 1..(4 * n) |->
        LET direction == BishopDirections[((j - 1) \div n) + 1]
            k == ((j - 1) % n) + 1
        IN  wrap(pos[1] + k * direction[1], pos[2] + k * direction[2], n)]

\* C16 as claimed: the generator computing each step from the starting
\* square gives another list than the cumulative one once the walk wraps
\* (in box_size steps every walk does): on every proper board (side >= 3)
\* some square shows it.
C16_FromStartDiverges ==
    (HasEngine /\ box_size >= 3) =>
        \E pos \in Cells(box_size) :
            get_bishop_moves(pos, box_size) # from_start(pos, box_size)

\* C16 as amended: the bishop's generator steps from the previously wrapped
\* square, and since the wrap is the true modulo the generator computing
\* each step from the starting square gives the very same list.
C16_FromStartAgrees ==
    (HasEngine /\ box_size >= 1) =>
        \A pos \in Cells(box_size) :
            get_bishop_moves(pos, box_size) = from_start(pos, box_size)

\* The bishop has walked off its corner on a side-3 board, where every
\* diagonal wraps, and the two lists are the twelve squares they should be.
C16_Witness ==
    /\ box_size = 3
    /\ steps = 3
    /\ bishop_pos # <<2, 2>>
    /\ Len(from_start(bishop_pos, 3)) = 12
    /\ from_start(bishop_pos, 3)[3] = bishop_pos

\* Tables with other contents than the engine's: the values reversed, and
\* one value everywhere.
OtherTables ==
    { [r \in 0..(box_size - 1) |-> [c \in 0..(box_size - 1) |->
          box_size * box_size - 1 - (r * box_size + c)]],
      [r \in 0..(box_size - 1) |-> [c \in 0..(box_size - 1) |-> 7]] }

\* C17: the cursors depend on box_size, the first squares and the draws
\* only: an engine started with other table contents and fed the same
\* draws has the same three cursors after every step.
C17_CursorsIgnoreValues ==
    HasEngine =>
        \A t \in OtherTables :
            LET e == replay([EngineAt(box_size) EXCEPT !.sbox = t],
                            box_size, draws, 0)
            IN  /\ e.knight_pos = knight_pos
                /\ e.king_pos = king_pos
                /\ e.bishop_pos = bishop_pos

\* Into the second iteration, the king away from its corner, and the other
\* engine's table really another one.
C17_Witness ==
    /\ box_size = 3
    /\ Len(draws) = 4
    /\ king_pos # <<0, 0>>
    /\ knight_pos # <<1, 1>>
    /\ \A t \in OtherTables :
           replay([EngineAt(3) EXCEPT !.sbox = t], 3, draws, 0).sbox # sbox

\* C18: for box_size >= 1 the last entry of each of the four segments of
\* the bishop's list (entries box_size, 2 box_size, 3 box_size, 4 box_size,
\* counted from 1) is the square it started from, so the bishop can be drawn
\* to stay, and that swap leaves the table as it was.
C18_BishopCanStay ==
    (HasEngine /\ box_size >= 1) =>
        /\ \A pos \in Cells(box_size) : \A k \in 1..4 :
               get_bishop_moves(pos, box_size)[k * box_size] = pos
        /\ \A k \in 1..4 :
               swap_positions(sbox, bishop_pos,
                   get_bishop_moves(bishop_pos, box_size)[k * box_size]) = sbox

\* After one iteration the bishop is where it was: it was drawn to stay.
C18_Witness ==
    /\ box_size = 3
    /\ steps = 3
    /\ pc = "idle"
    /\ bishop_pos = <<2, 2>>
    /\ knight_pos # <<1, 1>>

\* C19: for box_size >= 2 no entry of the knight's or the king's list, from
\* any square of the board, is the square it was made from, so every knight
\* step and every king step exchanges two different cells and changes the
\* table.
C19_KnightAndKingLeave ==
    [][(Moves /\ box_size >= 2 /\ pc \in {"knight", "king"}) =>
           /\ \A pos \in Cells(box_size) : \A i \in 1..8 :
                  /\ get_knight_moves(pos, box_size)[i] # pos
                  /\ get_king_moves(pos, box_size)[i] # pos
           /\ knight_pos' # knight_pos \/ king_pos' # king_pos
           /\ sbox' # sbox]_vars

\* Knight and king have both moved on the smallest board the claim covers.
C19_Witness ==
    /\ box_size = 2
    /\ steps = 2
    /\ pc = "bishop"
    /\ knight_pos # <<1, 1>>
    /\ king_pos # <<0, 0>>

Colour(pos) == (pos[1] + pos[2]) % 2

\* C20: on a board of even side the bishop stays on squares with
\* row + column even, the colour of its first corner; on a board of odd
\* side it is not so bound: its list from that corner holds a square of the
\* other colour, which one bishop move reaches.
C20_BishopKeepsColour ==
    HasEngine =>
        /\ box_size % 2 = 0 => Colour(bishop_pos) = 0
        /\ box_size % 2 = 1 =>
               \E i \in 1..(4 * box_size) :
                   Colour(get_bishop_moves(
                       <<box_size - 1, box_size - 1>>, box_size)[i]) = 1

\* The same on every board but the single square, the one odd side on which
\* the bishop has nowhere else to go.
C20_ProperBoardsKeepColour ==
    box_size # 1 => C20_BishopKeepsColour

\* The bishop has moved twice on an even board and is off its corner.
C20_EvenBoardMoved ==
    /\ box_size = 2
    /\ steps = 6
    /\ bishop_pos = <<0, 0>>

\* On a side-3 board the bishop does reach the other colour.
C20_OddBoardOtherColour ==
    /\ box_size = 3
    /\ Colour(bishop_pos) = 1

====
